---- MODULE Spec2Model ----
(***************************************************************************)
(* Model of package wrap of Data-Corruption/lmdb-go: the coordination      *)
(* layer that funnels concurrent writes onto one thread-locked goroutine.  *)
(*                                                                         *)
(* Two implementations of the package live in the repository:              *)
(*   - src/unnamed/part_001 (closed flag, closeOnce, Update, View): Spec   *)
(*   - src/wrap/wrap.go     (no flag, no guard, update):      SpecLegacy   *)
(* Both share New, the worker goroutine, Read and the argument parsing.    *)
(*                                                                         *)
(* Further specifications of src/unnamed/part_001 run a part of the        *)
(* goroutines:                                                             *)
(*   - SpecArgs:   Read, Write and Delete, one goroutine calling Close     *)
(*   - SpecReads:  every reading goroutine, no Close                       *)
(*   - SpecOpen:   the write path with a fair worker, no Close             *)
(*   - SpecNested: operations that call Update or Close on the same DB     *)
(*                                                                         *)
(* The LMDB engine is an external collaborator: the environment is a       *)
(* handle with a life cycle (nil, created, open, closed), a set of open    *)
(* write transactions, a set of open read transactions and a key/value     *)
(* store per named database.                                               *)
(***************************************************************************)
EXTENDS Integers, Sequences, FiniteSets, TLC

\* ---------------------------------------------------------------- bounds
\* capacity of the uOps channel (1000 in New; reduced so that a full queue
\* is reachable)
QueueCap == 2
\* number of goroutines calling Update/Write/Delete
NumCallers == 3
\* number of goroutines calling Close
NumClosers == 2
\* number of goroutines calling Read/View (SpecReads runs them all, the
\* other specifications the first one)
NumReaders == 2

\* every goroutine makes one call
Callers == 1..NumCallers
Closers == 1..NumClosers
Readers == 1..NumReaders

\* ---------------------------------------------------------------- values
ErrDuplicateDbName == "duplicate database name"
ErrDbNameNotFound == "database name not found"
ErrDBClosed == "database is closed"
ErrEmptyKey == "empty key"
\* errors that are not this package's: the engine's and the operation's
NotFound == "MDB_NOTFOUND"
EngineErr == "engine error"
OpErr == "operation error"
Nil == "nil"
\* no result yet
NoRes == "-"
\* the value of an absent key
NoVal == "none"

\* inputs of New: lists of database names
NameLists == {<<>>, <<"a", "b">>, <<"a", "a">>, <<"a", "b", "a">>}
\* inputs of Read/Write/Delete ("" is the empty name / key)
Names == {"a", "zz", ""}
Keys == {"k1", "k2", ""}
Vals == {"v1", "v2"}
\* the value a caller writes: values are opaque, neighbours write different
\* ones
ValOf(c) == IF c % 2 = 1 THEN "v1" ELSE "v2"
StoreKeys == {"k1", "k2"}
\* the key a caller writes or deletes: two callers share a key, the last
\* one has a key of its own
KeyOf(c) == IF c = NumCallers THEN "k2" ELSE "k1"
StoreNames == {"a", "b"}
\* the operations a caller hands to Update: a put, a del, or an operation
\* that returns its own error
PutOps == [kind : {"put"}, name : {"a"}, key : StoreKeys, val : Vals]
DelOps == [kind : {"del"}, name : {"a"}, key : StoreKeys, val : {""}]
FailOps == [kind : {"fail"}, name : {""}, key : {""}, val : {""}]
TxnOps == PutOps \cup DelOps \cup FailOps

VARIABLES
    dbNames,    \* New's argument
    newPc,      \* New's position
    newI,       \* New: index of the database being created
    dirMade,    \* os.MkdirAll has created the directory
    env,        \* life cycle of db.env
    stale,      \* staleReaders
    newRet,     \* what New returned
    dbs,        \* db.dbs: the names registered so far
    uOps,       \* db.uOps: the buffered channel's content
    chClosed,   \* db.uOps has been closed
    closed,     \* db.closed
    onceDone,   \* db.closeOnce: done
    onceLocked, \* db.closeOnce: its mutex is held
    wpc,        \* the worker goroutine's position
    wop,        \* the request the worker is executing
    wres,       \* the result of UpdateLocked
    writeTxns,  \* number of write transactions open on env
    readTxns,   \* readers with a read transaction open on env
    store,      \* the committed data
    cpc,        \* callers of Update/Write/Delete: position
    creq,       \* callers: the request made
    cres,       \* callers: the result of the last call
    enq,        \* history: number of requests enqueued
    exec,       \* history: number of worker transactions begun
    fin,        \* history: number of worker transactions ended
    got,        \* history: number of results received per caller
    want,       \* history: the data the requests enqueued so far produce
                \* when applied one after the other in that order
    clate,      \* history: the call was made after a Close had returned
    rpc,        \* callers of Read/View: position
    rreq,       \* callers of Read/View: the call made
    rres,       \* callers of Read/View: result of the call
    rbad,       \* the env was closed at some time of the read transaction
    rlate,      \* history: the call was made after a Close had returned
    kpc,        \* callers of Close: position
    chCloses,   \* history: number of close(db.uOps) executed
    envCloses,  \* history: number of db.env.Close() executed
    crashed,    \* an unrecovered panic has terminated the process
    panics      \* history: number of panics raised

vars == <<dbNames, newPc, newI, dirMade, env, stale, newRet, dbs, uOps,
          chClosed, closed, onceDone, onceLocked, wpc, wop, wres, writeTxns,
          readTxns, store, cpc, creq, cres, enq, exec, fin, got,
          want, clate, rpc, rreq, rres, rbad, rlate, kpc, chCloses, envCloses,
          crashed, panics>>

newVars == <<dbNames, newPc, newI, dirMade, stale, newRet, dbs>>
chanVars == <<uOps, chClosed>>
onceVars == <<onceDone, onceLocked>>
workerVars == <<wpc, wop, wres>>
callerVars == <<cpc, creq, cres>>
histVars == <<enq, exec, fin, got, want, clate>>
readerVars == <<rpc, rreq, rres, rbad, rlate, readTxns>>
closerVars == <<kpc, chCloses, envCloses>>
panicVars == <<crashed, panics>>

\* an updateOp: the operation (kind, name, key, val) and its res channel,
\* which belongs to the calling goroutine; seq is history, the request's
\* position in the order of enqueuing
NoReq == [seq |-> 0, caller |-> 0, kind |-> "none", name |-> "", key |-> "", val |-> ""]
\* a read transaction: the database and key read, and the value of its
\* snapshot
NoRead == [name |-> "", key |-> "", snap |-> ""]

Init ==
    /\ dbNames \in NameLists
    /\ newPc = "dupcheck"
    /\ newI = 1
    /\ dirMade = FALSE
    /\ env = "nil"
    /\ stale = 0
    /\ newRet = [db |-> FALSE, stale |-> 0, err |-> NoRes]
    /\ dbs = {}
    /\ uOps = <<>>
    /\ chClosed = FALSE
    /\ closed = 0
    /\ onceDone = FALSE
    /\ onceLocked = FALSE
    /\ wpc = "none"
    /\ wop = NoReq
    /\ wres = NoRes
    /\ writeTxns = 0
    /\ readTxns = {}
    /\ store = [n \in StoreNames |-> [k \in StoreKeys |-> NoVal]]
    /\ cpc = [c \in Callers |-> "idle"]
    /\ creq = [c \in Callers |-> NoReq]
    /\ cres = [c \in Callers |-> NoRes]
    /\ enq = 0
    /\ exec = 0
    /\ fin = 0
    /\ got = [i \in Callers |-> 0]
    /\ want = [n \in StoreNames |-> [k \in StoreKeys |-> NoVal]]
    /\ clate = [c \in Callers |-> FALSE]
    /\ rpc = [r \in Readers |-> "idle"]
    /\ rreq = [r \in Readers |-> NoRead]
    /\ rres = [r \in Readers |-> NoRes]
    /\ rbad = [r \in Readers |-> FALSE]
    /\ rlate = [r \in Readers |-> FALSE]
    /\ kpc = [k \in Closers |-> "idle"]
    /\ chCloses = 0
    /\ envCloses = 0
    /\ crashed = FALSE
    /\ panics = 0

\* ------------------------------------------------------------------ New
\* mutant: a loop that compares a name with the one before it only
RECURSIVE HasDuplicateAdjacent(_, _)
HasDuplicateAdjacent(names, seen) ==
    IF names = <<>> THEN FALSE
    ELSE IF Head(names) \in seen THEN TRUE
    ELSE HasDuplicateAdjacent(Tail(names), {Head(names)})

\* the uniqueness loop of New: TRUE when a name of the list was seen before
RECURSIVE HasDuplicate(_, _)
HasDuplicate(names, seen) ==
    IF names = <<>> THEN FALSE
    ELSE IF Head(names) \in seen THEN TRUE
    ELSE HasDuplicate(Tail(names), seen \cup {Head(names)})

\* New returns (nil, st, err)
NewFail(err, st) ==
    /\ newPc' = "failed"
    /\ newRet' = [db |-> FALSE, stale |-> st, err |-> err]

NewDupCheck ==
    /\ newPc = "dupcheck"
    /\ IF HasDuplicate(dbNames, {})
       THEN NewFail(ErrDuplicateDbName, 0)
       ELSE newPc' = "mkdir" /\ UNCHANGED newRet
    /\ UNCHANGED <<dbNames, newI, dirMade, stale, dbs, env, chanVars, closed,
                   onceVars, workerVars, writeTxns, store, callerVars,
                   histVars, readerVars, closerVars, panicVars>>

NewMkdirAll ==
    /\ newPc = "mkdir"
    /\ \/ newPc' = "newenv" /\ dirMade' = TRUE /\ UNCHANGED newRet
       \/ NewFail(EngineErr, 0) /\ UNCHANGED dirMade
    /\ UNCHANGED <<dbNames, newI, stale, dbs, env, chanVars, closed,
                   onceVars, workerVars, writeTxns, store, callerVars,
                   histVars, readerVars, closerVars, panicVars>>

NewNewEnv ==
    /\ newPc = "newenv"
    /\ \/ newPc' = "setmaxdbs" /\ env' = "created" /\ UNCHANGED newRet
       \/ NewFail(EngineErr, 0) /\ UNCHANGED env
    /\ UNCHANGED <<dbNames, newI, dirMade, stale, dbs, chanVars, closed,
                   onceVars, workerVars, writeTxns, store, callerVars,
                   histVars, readerVars, closerVars, panicVars>>

NewSetMaxDBs ==
    /\ newPc = "setmaxdbs"
    /\ \/ newPc' = "setmapsize" /\ UNCHANGED newRet
       \/ NewFail(EngineErr, 0)
    /\ UNCHANGED <<dbNames, newI, dirMade, stale, dbs, env, chanVars, closed,
                   onceVars, workerVars, writeTxns, store, callerVars,
                   histVars, readerVars, closerVars, panicVars>>

NewSetMapSize ==
    /\ newPc = "setmapsize"
    /\ \/ newPc' = "open" /\ UNCHANGED newRet
       \/ NewFail(EngineErr, 0)
    /\ UNCHANGED <<dbNames, newI, dirMade, stale, dbs, env, chanVars, closed,
                   onceVars, workerVars, writeTxns, store, callerVars,
                   histVars, readerVars, closerVars, panicVars>>

NewOpen ==
    /\ newPc = "open"
    /\ \/ newPc' = "readercheck" /\ env' = "open" /\ UNCHANGED newRet
       \/ NewFail(EngineErr, 0) /\ UNCHANGED env
    /\ UNCHANGED <<dbNames, newI, dirMade, stale, dbs, chanVars, closed,
                   onceVars, workerVars, writeTxns, store, callerVars,
                   histVars, readerVars, closerVars, panicVars>>

NewReaderCheck ==
    /\ newPc = "readercheck"
    /\ \/ /\ newPc' = "createdbi"
          /\ stale' \in {0, 1}
          /\ UNCHANGED <<newRet, env, envCloses>>
       \/ /\ NewFail(EngineErr, 0)
          /\ env' = "closed"
          /\ envCloses' = envCloses + 1
          /\ UNCHANGED stale
    /\ UNCHANGED <<dbNames, newI, dirMade, dbs, chanVars, closed,
                   onceVars, workerVars, writeTxns, store, callerVars,
                   histVars, readerVars, kpc, chCloses, panicVars>>

\* env.Update of the database loop: the write transaction begins
NewBeginTxn ==
    /\ newPc = "createdbi"
    /\ newI <= Len(dbNames)
    /\ newPc' = "intxn"
    /\ writeTxns' = writeTxns + 1
    /\ UNCHANGED <<dbNames, newI, dirMade, stale, newRet, dbs, env, chanVars,
                   closed, onceVars, workerVars, store, callerVars,
                   histVars, readerVars, closerVars, panicVars>>

\* txn.CreateDBI and the end of env.Update: commit, or abort and give up
NewCreateDBI ==
    /\ newPc = "intxn"
    /\ writeTxns' = writeTxns - 1
    /\ \/ /\ dbs' = dbs \cup {dbNames[newI]}
          /\ newI' = newI + 1
          /\ newPc' = "createdbi"
          /\ UNCHANGED <<newRet, env, envCloses>>
       \/ /\ NewFail(EngineErr, stale)
          /\ env' = "closed"
          /\ envCloses' = envCloses + 1
          /\ UNCHANGED <<dbs, newI>>
    /\ UNCHANGED <<dbNames, dirMade, stale, chanVars, closed,
                   onceVars, workerVars, store, callerVars,
                   histVars, readerVars, kpc, chCloses, panicVars>>

\* wg.Add(1); go func() {...}()
NewStartWorker ==
    /\ newPc = "createdbi"
    /\ newI > Len(dbNames)
    /\ newPc' = "return"
    /\ wpc' = "idle"
    /\ UNCHANGED <<dbNames, newI, dirMade, stale, newRet, dbs, env, chanVars,
                   closed, onceVars, wop, wres, writeTxns, store, callerVars,
                   histVars, readerVars, closerVars, panicVars>>

NewReturn ==
    /\ newPc = "return"
    /\ newPc' = "done"
    /\ newRet' = [db |-> TRUE, stale |-> stale, err |-> Nil]
    /\ UNCHANGED <<dbNames, newI, dirMade, stale, dbs, env, chanVars,
                   closed, onceVars, workerVars, writeTxns, store, callerVars,
                   histVars, readerVars, closerVars, panicVars>>

New ==
    \/ NewDupCheck
    \/ NewMkdirAll
    \/ NewNewEnv
    \/ NewSetMaxDBs
    \/ NewSetMapSize
    \/ NewOpen
    \/ NewReaderCheck
    \/ NewBeginTxn
    \/ NewCreateDBI
    \/ NewStartWorker
    \/ NewReturn

\* the caller of New holds a DB
Ready == newPc = "done" /\ ~crashed

\* ---------------------------------------------------------------- panics
\* a panic in a goroutine: the process terminates unless the goroutine's
\* caller recovers
Panic ==
    /\ panics' = panics + 1
    /\ crashed' \in BOOLEAN

CloseReturned == \E k \in Closers : kpc[k] = "done"

\* ------------------------------------------------- Update, Write, Delete
\* mutant: the check of the key is missing
validateArgsNoKey(dbName, key) ==
    IF dbName = "" THEN ErrDbNameNotFound
    ELSE IF dbName \notin dbs THEN ErrDbNameNotFound
    ELSE Nil

validateArgs(dbName, key) ==
    IF dbName = "" THEN ErrDbNameNotFound
    ELSE IF key = "" THEN ErrEmptyKey
    ELSE IF dbName \notin dbs THEN ErrDbNameNotFound
    ELSE Nil

\* the call returns err without having enqueued anything
Return(c, err) ==
    /\ cpc' = [cpc EXCEPT ![c] = "done"]
    /\ cres' = [cres EXCEPT ![c] = err]
    /\ UNCHANGED creq

\* Update up to its send: the closed check and the making of the request
UpdateEnter(c, op) ==
    IF closed # 0
    THEN Return(c, ErrDBClosed)
    ELSE /\ cpc' = [cpc EXCEPT ![c] = "send"]
         /\ creq' = [creq EXCEPT ![c] = [seq |-> 0, caller |-> c,
                        kind |-> op.kind, name |-> op.name, key |-> op.key,
                        val |-> op.val]]
         /\ UNCHANGED cres

CallFrame(c) ==
    /\ Ready
    /\ cpc[c] = "idle"
    /\ clate' = [clate EXCEPT ![c] = CloseReturned]
    /\ UNCHANGED <<newVars, env, chanVars, closed, onceVars, workerVars,
                   writeTxns, store, enq, exec, fin, got, want, readerVars,
                   closerVars, panicVars>>

\* the operation uses handles of GetDBis only
Update(c) ==
    /\ CallFrame(c)
    /\ \E op \in TxnOps :
          /\ op.kind # "fail" => op.name \in dbs
          /\ op.kind = "put" => op.val = ValOf(c)
          /\ op.kind # "fail" => op.key = KeyOf(c)
          /\ UpdateEnter(c, op)

\* mutant: the closed check comes before the validation
WriteCallClosedFirst(c, dbName, key, value) ==
    /\ CallFrame(c)
    /\ IF closed # 0
       THEN Return(c, ErrDBClosed)
       ELSE IF validateArgs(dbName, key) # Nil
       THEN Return(c, validateArgs(dbName, key))
       ELSE UpdateEnter(c, [kind |-> "put", name |-> dbName, key |-> key,
                            val |-> value])

\* Update with an operation that calls db.Update ("nestU") or db.Close
\* ("nestC") on the same DB
UpdateNested(c) ==
    /\ CallFrame(c)
    /\ \E kind \in {"nestU", "nestC"} :
          UpdateEnter(c, [kind |-> kind, name |-> "", key |-> "",
                          val |-> ""])

\* one call Write(dbName, key, value), up to its send
WriteCall(c, dbName, key, value) ==
    /\ CallFrame(c)
    /\ IF validateArgs(dbName, key) # Nil
       THEN Return(c, validateArgs(dbName, key))
       ELSE UpdateEnter(c, [kind |-> "put", name |-> dbName, key |-> key,
                            val |-> value])

Write(c) ==
    \E dbName \in Names, key \in {KeyOf(c), ""}, value \in {ValOf(c)} :
        WriteCall(c, dbName, key, value)

\* one call Delete(dbName, key), up to its send
DeleteCall(c, dbName, key) ==
    /\ CallFrame(c)
    /\ IF validateArgs(dbName, key) # Nil
       THEN Return(c, validateArgs(dbName, key))
       ELSE UpdateEnter(c, [kind |-> "del", name |-> dbName, key |-> key,
                            val |-> ""])

Delete(c) ==
    \E dbName \in Names, key \in {KeyOf(c), ""} :
        DeleteCall(c, dbName, key)

\* history: the data d after one more submitted operation, as the engine
\* documents put and del (a put stores the value over any other, a del of a
\* present key removes it, a del of an absent key and a failing operation
\* change nothing)
Submitted(op, d) ==
    IF op.kind = "put" THEN [d EXCEPT ![op.name][op.key] = op.val]
    ELSE IF op.kind = "del" THEN [d EXCEPT ![op.name][op.key] = NoVal]
    ELSE d

\* mutant: a send that does not wait for a free slot
SendUnbounded(c) ==
    /\ ~crashed
    /\ cpc[c] = "send"
    /\ IF chClosed
       THEN /\ Panic
            /\ cpc' = [cpc EXCEPT ![c] = "panicked"]
            /\ UNCHANGED <<uOps, enq, want>>
       ELSE /\ uOps' = Append(uOps, [creq[c] EXCEPT !.seq = enq + 1])
            /\ enq' = enq + 1
            /\ want' = Submitted(creq[c], want)
            /\ cpc' = [cpc EXCEPT ![c] = "recv"]
            /\ UNCHANGED panicVars
    /\ UNCHANGED <<newVars, env, chClosed, closed, onceVars, workerVars,
                   writeTxns, store, creq, cres, exec, fin, got,
                   clate, readerVars, closerVars>>

\* db.uOps <- &updateOp{op, res}: blocks while the channel is full, panics
\* when the channel is closed
Send(c) ==
    /\ ~crashed
    /\ cpc[c] = "send"
    /\ IF chClosed
       THEN /\ Panic
            /\ cpc' = [cpc EXCEPT ![c] = "panicked"]
            /\ UNCHANGED <<uOps, enq, want>>
       ELSE /\ Len(uOps) < QueueCap
            /\ uOps' = Append(uOps, [creq[c] EXCEPT !.seq = enq + 1])
            /\ enq' = enq + 1
            /\ want' = Submitted(creq[c], want)
            /\ cpc' = [cpc EXCEPT ![c] = "recv"]
            /\ UNCHANGED panicVars
    /\ UNCHANGED <<newVars, env, chClosed, closed, onceVars, workerVars,
                   writeTxns, store, creq, cres, exec, fin, got,
                   clate, readerVars, closerVars>>

\* --------------------------------------------------- the worker goroutine
\* mutant: the receive takes the newest request
DequeueLast(q) == [op |-> q[Len(q)], rest |-> SubSeq(q, 1, Len(q) - 1)]

\* a receive from the channel: the oldest request, and what stays queued
Dequeue(q) == [op |-> Head(q), rest |-> Tail(q)]

\* for op := range db.uOps, and the begin of UpdateLocked's transaction
WorkerRecv ==
    /\ ~crashed
    /\ wpc = "idle"
    /\ uOps # <<>>
    /\ wop' = Dequeue(uOps).op
    /\ uOps' = Dequeue(uOps).rest
    /\ wpc' = "txn"
    /\ writeTxns' = writeTxns + 1
    /\ exec' = exec + 1
    /\ UNCHANGED <<newVars, env, chClosed, closed, onceVars, wres, store,
                   callerVars, enq, fin, got, want, clate, readerVars,
                   closerVars, panicVars>>

\* what the operation returns in a transaction on data d
OpResult(op, d) ==
    CASE op.kind = "put" -> Nil
      [] op.kind = "del" -> IF d[op.name][op.key] = NoVal THEN NotFound ELSE Nil
      [] OTHER -> OpErr

\* mutant: a del that leaves the key in place
OpEffectDelKeeps(op, d) ==
    CASE op.kind = "put" -> [d EXCEPT ![op.name][op.key] = op.val]
      [] OTHER -> d

\* mutant: a put that keeps the value of a key that is present (the
\* engine's NoOverwrite flag)
OpEffectNoOverwrite(op, d) ==
    CASE op.kind = "put" -> IF d[op.name][op.key] = NoVal
                            THEN [d EXCEPT ![op.name][op.key] = op.val]
                            ELSE d
      [] op.kind = "del" -> [d EXCEPT ![op.name][op.key] = NoVal]
      [] OTHER -> d

\* the data after the transaction: committed when the operation returned
\* nil, aborted otherwise
OpEffect(op, d) ==
    CASE op.kind = "put" -> [d EXCEPT ![op.name][op.key] = op.val]
      [] op.kind = "del" -> [d EXCEPT ![op.name][op.key] = NoVal]
      [] OTHER -> d

\* mutant: the transaction of a failed operation is not aborted
WorkerUpdateLockedNoAbort ==
    /\ ~crashed
    /\ wpc = "txn"
    /\ wop.kind \in {"put", "del", "fail"}
    /\ wres' = OpResult(wop, store)
    /\ store' = IF OpResult(wop, store) = Nil THEN OpEffect(wop, store)
                ELSE store
    /\ writeTxns' = IF OpResult(wop, store) = Nil THEN writeTxns - 1
                    ELSE writeTxns
    /\ fin' = fin + 1
    /\ wpc' = "reply"
    /\ UNCHANGED <<newVars, env, chanVars, closed, onceVars, wop,
                   callerVars, enq, exec, got, want, clate, readerVars,
                   closerVars, panicVars>>

\* env.UpdateLocked(op.op): run the operation, commit or abort
WorkerUpdateLocked ==
    /\ ~crashed
    /\ wpc = "txn"
    /\ wop.kind \in {"put", "del", "fail"}
    /\ wres' = OpResult(wop, store)
    /\ store' = IF OpResult(wop, store) = Nil THEN OpEffect(wop, store)
                ELSE store
    /\ writeTxns' = writeTxns - 1
    /\ fin' = fin + 1
    /\ wpc' = "reply"
    /\ UNCHANGED <<newVars, env, chanVars, closed, onceVars, wop,
                   callerVars, enq, exec, got, want, clate, readerVars,
                   closerVars, panicVars>>

\* mutant: one result channel for all requests: any waiting caller takes
\* the result
WorkerReplyShared ==
    /\ ~crashed
    /\ wpc = "reply"
    /\ \E c \in Callers :
          /\ cpc[c] = "recv"
          /\ cres' = [cres EXCEPT ![c] = wres]
          /\ cpc' = [cpc EXCEPT ![c] = "done"]
          /\ creq' = [creq EXCEPT ![c] = NoReq]
          /\ got' = [got EXCEPT ![c] = @ + 1]
    /\ wpc' = "idle"
    /\ wop' = NoReq
    /\ wres' = NoRes
    /\ UNCHANGED <<newVars, env, chanVars, closed, onceVars, writeTxns,
                   store, enq, exec, fin, want, clate, readerVars,
                   closerVars, panicVars>>

\* ---- operations that call back into the DB from inside the transaction
\* the operation calls db.Update (as do Write and Delete with arguments that
\* pass the validation): the closed check of the inner call. With the flag
\* set the inner call returns ErrDBClosed, which the operation returns:
\* the transaction is aborted.
WorkerInnerUpdate ==
    /\ ~crashed
    /\ wpc = "txn"
    /\ wop.kind = "nestU"
    /\ IF closed # 0
       THEN /\ wres' = ErrDBClosed
            /\ writeTxns' = writeTxns - 1
            /\ fin' = fin + 1
            /\ wpc' = "reply"
       ELSE /\ wpc' = "innersend"
            /\ UNCHANGED <<wres, writeTxns, fin>>
    /\ UNCHANGED <<newVars, env, chanVars, closed, onceVars, wop, store,
                   callerVars, enq, exec, got, want, clate, readerVars,
                   closerVars, panicVars>>

\* the request the inner call enqueues: its caller is the worker
InnerReq == [seq |-> 0, caller |-> 0, kind |-> "inner", name |-> "",
             key |-> "", val |-> ""]

\* mutant: an inner call that runs its operation in the transaction of the
\* outer one in place of enqueueing it
WorkerInnerSendInline ==
    /\ ~crashed
    /\ wpc = "innersend"
    /\ wres' = Nil
    /\ writeTxns' = writeTxns - 1
    /\ fin' = fin + 1
    /\ wpc' = "reply"
    /\ UNCHANGED <<uOps, enq, want, panicVars>>
    /\ UNCHANGED <<newVars, env, chClosed, closed, onceVars, wop, store,
                   callerVars, exec, got, clate, readerVars, closerVars>>

\* the inner call's send on db.uOps, made by the worker itself: it blocks
\* while the channel is full and panics, in the worker goroutine, when the
\* channel is closed; after it the worker waits for a result that only
\* itself could send
WorkerInnerSend ==
    /\ ~crashed
    /\ wpc = "innersend"
    /\ IF chClosed
       THEN /\ panics' = panics + 1
            /\ crashed' = TRUE
            /\ wpc' = "panicked"
            /\ UNCHANGED <<uOps, enq, want>>
       ELSE /\ Len(uOps) < QueueCap
            /\ uOps' = Append(uOps, [InnerReq EXCEPT !.seq = enq + 1])
            /\ enq' = enq + 1
            /\ want' = Submitted(InnerReq, want)
            /\ wpc' = "innerwait"
            /\ UNCHANGED panicVars
    /\ UNCHANGED <<wres, writeTxns, fin>>
    /\ UNCHANGED <<newVars, env, chClosed, closed, onceVars, wop, store,
                   callerVars, exec, got, clate, readerVars, closerVars>>

\* the operation calls db.Close: closeOnce.Do returns at once when done is
\* set (the operation then returns nil), else takes the mutex, waiting for
\* a call in progress
WorkerInnerClose ==
    /\ ~crashed
    /\ wpc = "txn"
    /\ wop.kind = "nestC"
    /\ onceDone \/ ~onceLocked
    /\ IF onceDone
       THEN /\ wres' = Nil
            /\ writeTxns' = writeTxns - 1
            /\ fin' = fin + 1
            /\ wpc' = "reply"
            /\ UNCHANGED onceLocked
       ELSE /\ onceLocked' = TRUE
            /\ wpc' = "innerstore"
            /\ UNCHANGED <<wres, writeTxns, fin>>
    /\ UNCHANGED <<newVars, env, chanVars, closed, onceDone, wop, store,
                   callerVars, enq, exec, got, want, clate, readerVars,
                   closerVars, panicVars>>

\* the inner Close stores the closed flag
WorkerInnerStore ==
    /\ ~crashed
    /\ wpc = "innerstore"
    /\ closed' = 1
    /\ wpc' = "innerclosech"
    /\ UNCHANGED <<newVars, env, chanVars, onceVars, wop, wres, writeTxns,
                   store, callerVars, histVars, readerVars, closerVars,
                   panicVars>>

\* the inner Close closes db.uOps and then waits, in db.wg.Wait(), for the
\* worker, which is itself
WorkerInnerCloseChan ==
    /\ ~crashed
    /\ wpc = "innerclosech"
    /\ IF chClosed
       THEN /\ panics' = panics + 1
            /\ crashed' = TRUE
            /\ wpc' = "panicked"
            /\ UNCHANGED <<chClosed, chCloses>>
       ELSE /\ chClosed' = TRUE
            /\ chCloses' = chCloses + 1
            /\ wpc' = "innerwgwait"
            /\ UNCHANGED panicVars
    /\ UNCHANGED <<newVars, env, uOps, closed, onceVars, wop, wres,
                   writeTxns, store, callerVars, histVars, readerVars,
                   kpc, envCloses>>

\* op.res <- result, received by the caller's return <-res
WorkerReply ==
    /\ ~crashed
    /\ wpc = "reply"
    /\ cpc[wop.caller] = "recv"
    /\ cres' = [cres EXCEPT ![wop.caller] = wres]
    /\ cpc' = [cpc EXCEPT ![wop.caller] = "done"]
    /\ creq' = [creq EXCEPT ![wop.caller] = NoReq]
    /\ got' = [got EXCEPT ![wop.caller] = @ + 1]
    /\ wpc' = "idle"
    /\ wop' = NoReq
    /\ wres' = NoRes
    /\ UNCHANGED <<newVars, env, chanVars, closed, onceVars, writeTxns,
                   store, enq, exec, fin, want, clate, readerVars,
                   closerVars, panicVars>>

\* the range loop ends when the channel is closed and empty; wg.Done()
WorkerExit ==
    /\ ~crashed
    /\ wpc = "idle"
    /\ uOps = <<>>
    /\ chClosed
    /\ wpc' = "exited"
    /\ UNCHANGED <<newVars, env, chanVars, closed, onceVars, wop, wres,
                   writeTxns, store, callerVars, histVars, readerVars,
                   closerVars, panicVars>>

Worker ==
    \/ WorkerRecv
    \/ WorkerUpdateLocked
    \/ WorkerReply
    \/ WorkerExit

\* ------------------------------------------------------------ Read, View
\* mutant: a read takes a lock that the worker holds during its
\* transaction
ReadFrameLocked(r) ==
    /\ Ready
    /\ rpc[r] = "idle"
    /\ writeTxns = 0
    /\ rlate' = [rlate EXCEPT ![r] = CloseReturned]
    /\ UNCHANGED <<newVars, env, chanVars, closed, onceVars, workerVars,
                   writeTxns, store, callerVars, histVars, closerVars,
                   panicVars>>

ReadFrame(r) ==
    /\ Ready
    /\ rpc[r] = "idle"
    /\ rlate' = [rlate EXCEPT ![r] = CloseReturned]
    /\ UNCHANGED <<newVars, env, chanVars, closed, onceVars, workerVars,
                   writeTxns, store, callerVars, histVars, closerVars,
                   panicVars>>

\* env.View begins: a read transaction on a snapshot of the data
BeginView(r, dbName, key) ==
    /\ rpc' = [rpc EXCEPT ![r] = "intxn"]
    /\ rreq' = [rreq EXCEPT ![r] = [name |-> dbName, key |-> key,
                   snap |-> store[dbName][key]]]
    /\ readTxns' = readTxns \cup {r}
    /\ rbad' = [rbad EXCEPT ![r] = (env = "closed")]
    /\ UNCHANGED rres

ReadReturn(r, err) ==
    /\ rpc' = [rpc EXCEPT ![r] = "done"]
    /\ rres' = [rres EXCEPT ![r] = err]
    /\ UNCHANGED <<rreq, rbad, readTxns>>

\* one call Read(dbName, key), up to the begin of its transaction
ReadCall(r, dbName, key) ==
    /\ ReadFrame(r)
    /\ IF validateArgs(dbName, key) # Nil
       THEN ReadReturn(r, validateArgs(dbName, key))
       ELSE BeginView(r, dbName, key)

Read(r) ==
    \E dbName \in Names, key \in Keys : ReadCall(r, dbName, key)

\* View up to its call of env.View: the closed check. The operation reads a
\* key of database "a", whose handle the caller has from GetDBis.
View(r) ==
    /\ ReadFrame(r)
    /\ "a" \in dbs
    /\ IF closed # 0
       THEN ReadReturn(r, ErrDBClosed)
       ELSE /\ rpc' = [rpc EXCEPT ![r] = "view"]
            /\ UNCHANGED <<rreq, rres, rbad, readTxns>>

ViewBegin(r) ==
    /\ ~crashed
    /\ rpc[r] = "view"
    /\ \E key \in StoreKeys : BeginView(r, "a", key)
    /\ UNCHANGED <<newVars, env, chanVars, closed, onceVars, workerVars,
                   writeTxns, store, callerVars, histVars, rlate, closerVars,
                   panicVars>>

\* what a transaction on a closed environment may return: the engine's
\* behaviour is undefined there
Garbage(r) == {EngineErr, NotFound, rreq[r].snap} \ {NoVal}

\* the read transaction ends and the call returns: txn.Get's value or
\* NotFound. On an environment that was closed under the transaction the
\* outcome is any result, or a fault that ends the process.
ViewEnd(r) ==
    /\ ~crashed
    /\ rpc[r] = "intxn"
    /\ readTxns' = readTxns \ {r}
    /\ rreq' = [rreq EXCEPT ![r] = NoRead]
    /\ rbad' = [rbad EXCEPT ![r] = FALSE]
    /\ IF rbad[r]
       THEN \/ /\ \E v \in Garbage(r) : rres' = [rres EXCEPT ![r] = v]
               /\ rpc' = [rpc EXCEPT ![r] = "done"]
               /\ UNCHANGED panicVars
            \/ /\ rpc' = [rpc EXCEPT ![r] = "panicked"]
               /\ panics' = panics + 1
               /\ crashed' = TRUE
               /\ UNCHANGED rres
       ELSE /\ rres' = [rres EXCEPT ![r] =
                           IF rreq[r].snap = NoVal THEN NotFound
                           ELSE rreq[r].snap]
            /\ rpc' = [rpc EXCEPT ![r] = "done"]
            /\ UNCHANGED panicVars
    /\ UNCHANGED <<newVars, env, chanVars, closed, onceVars, workerVars,
                   writeTxns, store, callerVars, histVars, rlate,
                   closerVars>>

\* ----------------------------------------------------------------- Close
\* mutant: a guard that lets a second caller through while the first is
\* still at work (a compare-and-swap in place of the Once)
CloseNoWait(k) ==
    /\ Ready
    /\ kpc[k] = "idle"
    /\ IF onceDone \/ onceLocked
       THEN kpc' = [kpc EXCEPT ![k] = "done"] /\ UNCHANGED onceLocked
       ELSE kpc' = [kpc EXCEPT ![k] = "store"] /\ onceLocked' = TRUE
    /\ UNCHANGED <<newVars, env, chanVars, closed, onceDone, workerVars,
                   writeTxns, store, callerVars, histVars, readerVars,
                   chCloses, envCloses, panicVars>>

\* closeOnce.Do: returns at once when done is set, else takes the mutex
\* (waiting for a call in progress) and runs the function if done is still
\* unset
Close(k) ==
    /\ Ready
    /\ kpc[k] = "idle"
    /\ onceDone \/ ~onceLocked
    /\ IF onceDone
       THEN kpc' = [kpc EXCEPT ![k] = "done"] /\ UNCHANGED onceLocked
       ELSE kpc' = [kpc EXCEPT ![k] = "store"] /\ onceLocked' = TRUE
    /\ UNCHANGED <<newVars, env, chanVars, closed, onceDone, workerVars,
                   writeTxns, store, callerVars, histVars, readerVars,
                   chCloses, envCloses, panicVars>>

\* atomic.StoreUint32(&db.closed, 1)
CloseStore(k) ==
    /\ ~crashed
    /\ kpc[k] = "store"
    /\ closed' = 1
    /\ kpc' = [kpc EXCEPT ![k] = "closech"]
    /\ UNCHANGED <<newVars, env, chanVars, onceVars, workerVars,
                   writeTxns, store, callerVars, histVars, readerVars,
                   chCloses, envCloses, panicVars>>

\* close(db.uOps): panics when the channel is closed already
CloseChan(k) ==
    /\ ~crashed
    /\ kpc[k] = "closech"
    /\ IF chClosed
       THEN /\ Panic
            /\ kpc' = [kpc EXCEPT ![k] = "panicked"]
            /\ UNCHANGED <<chClosed, chCloses>>
       ELSE /\ chClosed' = TRUE
            /\ chCloses' = chCloses + 1
            /\ kpc' = [kpc EXCEPT ![k] = "wait"]
            /\ UNCHANGED panicVars
    /\ UNCHANGED <<newVars, env, uOps, closed, onceVars, workerVars,
                   writeTxns, store, callerVars, histVars, readerVars,
                   envCloses>>

\* mutant: db.env.Close() without db.wg.Wait()
CloseEnvNoWait(k) ==
    /\ ~crashed
    /\ kpc[k] = "wait"
    /\ env' = "closed"
    /\ envCloses' = envCloses + 1
    /\ rbad' = [r \in Readers |-> rbad[r] \/ r \in readTxns]
    /\ kpc' = [kpc EXCEPT ![k] = "ret"]
    /\ UNCHANGED <<newVars, chanVars, closed, onceVars, workerVars,
                   writeTxns, store, callerVars, histVars, rpc, rreq, rres,
                   rlate, readTxns, chCloses, panicVars>>

\* db.wg.Wait(), then db.env.Close(): the handle is released under
\* whatever still uses it
CloseEnv(k) ==
    /\ ~crashed
    /\ kpc[k] = "wait"
    /\ wpc = "exited"
    /\ env' = "closed"
    /\ envCloses' = envCloses + 1
    /\ rbad' = [r \in Readers |-> rbad[r] \/ r \in readTxns]
    /\ kpc' = [kpc EXCEPT ![k] = "ret"]
    /\ UNCHANGED <<newVars, chanVars, closed, onceVars, workerVars,
                   writeTxns, store, callerVars, histVars, rpc, rreq, rres,
                   rlate, readTxns, chCloses, panicVars>>

\* closeOnce.Do returns: done is set, the mutex released
OnceReturn(k) ==
    /\ ~crashed
    /\ kpc[k] = "ret"
    /\ onceDone' = TRUE
    /\ onceLocked' = FALSE
    /\ kpc' = [kpc EXCEPT ![k] = "done"]
    /\ UNCHANGED <<newVars, env, chanVars, closed, workerVars,
                   writeTxns, store, callerVars, histVars, readerVars,
                   chCloses, envCloses, panicVars>>

\* ------------------------------------------- src/wrap/wrap.go: the legacy
\* update has no closed check: the request is made and sent
LegacyEnter(c, op) ==
    /\ cpc' = [cpc EXCEPT ![c] = "send"]
    /\ creq' = [creq EXCEPT ![c] = [seq |-> 0, caller |-> c,
                   kind |-> op.kind, name |-> op.name, key |-> op.key,
                   val |-> op.val]]
    /\ UNCHANGED cres

LegacyWrite(c) ==
    /\ CallFrame(c)
    /\ \E dbName \in Names, key \in {KeyOf(c), ""}, value \in {ValOf(c)} :
          IF validateArgs(dbName, key) # Nil
          THEN Return(c, validateArgs(dbName, key))
          ELSE LegacyEnter(c, [kind |-> "put", name |-> dbName, key |-> key,
                               val |-> value])

LegacyDelete(c) ==
    /\ CallFrame(c)
    /\ \E dbName \in Names, key \in {KeyOf(c), ""} :
          IF validateArgs(dbName, key) # Nil
          THEN Return(c, validateArgs(dbName, key))
          ELSE LegacyEnter(c, [kind |-> "del", name |-> dbName, key |-> key,
                               val |-> ""])

\* Close has no guard: every call goes on to close(db.uOps)
LegacyClose(k) ==
    /\ Ready
    /\ kpc[k] = "idle"
    /\ kpc' = [kpc EXCEPT ![k] = "closech"]
    /\ UNCHANGED <<newVars, env, chanVars, closed, onceVars, workerVars,
                   writeTxns, store, callerVars, histVars, readerVars,
                   chCloses, envCloses, panicVars>>

LegacyCloseReturn(k) ==
    /\ ~crashed
    /\ kpc[k] = "ret"
    /\ kpc' = [kpc EXCEPT ![k] = "done"]
    /\ UNCHANGED <<newVars, env, chanVars, closed, onceVars, workerVars,
                   writeTxns, store, callerVars, histVars, readerVars,
                   chCloses, envCloses, panicVars>>

\* ------------------------------------------------------- the specification
\* three writing goroutines, one reading goroutine and two closing ones
Next ==
    \/ New
    \/ \E c \in Callers : Update(c)
    \/ \E c \in Callers : Write(c)
    \/ \E c \in Callers : Delete(c)
    \/ \E c \in Callers : Send(c)
    \/ Worker
    \/ \E r \in {1} : Read(r)
    \/ \E r \in {1} : View(r)
    \/ \E r \in {1} : ViewBegin(r)
    \/ \E r \in {1} : ViewEnd(r)
    \/ \E k \in Closers : Close(k)
    \/ \E k \in Closers : CloseStore(k)
    \/ \E k \in Closers : CloseChan(k)
    \/ \E k \in Closers : CloseEnv(k)
    \/ \E k \in Closers : OnceReturn(k)

Spec == Init /\ [][Next]_vars

NextLegacy ==
    \/ New
    \/ \E c \in Callers : LegacyWrite(c)
    \/ \E c \in Callers : LegacyDelete(c)
    \/ \E c \in Callers : Send(c)
    \/ Worker
    \/ \E r \in {1} : Read(r)
    \/ \E r \in {1} : ViewEnd(r)
    \/ \E k \in Closers : LegacyClose(k)
    \/ \E k \in Closers : CloseChan(k)
    \/ \E k \in Closers : CloseEnv(k)
    \/ \E k \in Closers : LegacyCloseReturn(k)

SpecLegacy == Init /\ [][NextLegacy]_vars

\* the calls that validate their arguments, with one goroutine calling
\* Close
NextArgs ==
    \/ New
    \/ \E c \in Callers : Write(c)
    \/ \E c \in Callers : Delete(c)
    \/ \E c \in Callers : Send(c)
    \/ Worker
    \/ \E r \in {1} : Read(r)
    \/ \E r \in {1} : ViewEnd(r)
    \/ \E k \in {1} : Close(k)
    \/ \E k \in {1} : CloseStore(k)
    \/ \E k \in {1} : CloseChan(k)
    \/ \E k \in {1} : CloseEnv(k)
    \/ \E k \in {1} : OnceReturn(k)

SpecArgs == Init /\ [][NextArgs]_vars

\* an open DB that no goroutine closes, with every reading goroutine
NextReads ==
    \/ New
    \/ \E c \in Callers : Update(c)
    \/ \E c \in Callers : Write(c)
    \/ \E c \in Callers : Delete(c)
    \/ \E c \in Callers : Send(c)
    \/ WorkerRecv
    \/ WorkerUpdateLocked
    \/ WorkerReply
    \/ \E r \in Readers : Read(r)
    \/ \E r \in Readers : View(r)
    \/ \E r \in Readers : ViewBegin(r)
    \/ \E r \in Readers : ViewEnd(r)

SpecReads == Init /\ [][NextReads]_vars

\* the write path of an open DB that no goroutine closes. The worker is a
\* goroutine of its own that the runtime keeps scheduling, and a sender
\* that waits on the channel is woken when a slot is free.
NextOpen ==
    \/ New
    \/ \E c \in Callers : Update(c)
    \/ \E c \in Callers : Write(c)
    \/ \E c \in Callers : Delete(c)
    \/ \E c \in Callers : Send(c)
    \/ WorkerRecv
    \/ WorkerUpdateLocked
    \/ WorkerReply

\* callers whose operations may call back into the DB
NextNested ==
    \/ New
    \/ \E c \in Callers : Update(c)
    \/ \E c \in Callers : UpdateNested(c)
    \/ \E c \in Callers : Send(c)
    \/ Worker
    \/ WorkerInnerUpdate
    \/ WorkerInnerSend
    \/ WorkerInnerClose
    \/ WorkerInnerStore
    \/ WorkerInnerCloseChan
    \/ \E k \in Closers : Close(k)
    \/ \E k \in Closers : CloseStore(k)
    \/ \E k \in Closers : CloseChan(k)
    \/ \E k \in Closers : CloseEnv(k)
    \/ \E k \in Closers : OnceReturn(k)

SpecNested == Init /\ [][NextNested]_vars

SpecOpen ==
    /\ Init
    /\ [][NextOpen]_vars
    /\ WF_vars(WorkerRecv)
    /\ WF_vars(WorkerUpdateLocked)
    /\ WF_vars(WorkerReply)
    /\ \A c \in Callers : WF_vars(Send(c))

\* ------------------------------------------------------------------ claims
\* C1: the worker executes the requests in the order they were enqueued.
\* The k-th transaction the worker begins is that of the k-th request
\* enqueued, the requests still queued are the next ones in order, and a
\* transaction begins only when every earlier one has ended.
C1_FIFO ==
    /\ wop # NoReq => wop.seq = exec
    /\ \A i \in 1..Len(uOps) : uOps[i].seq = exec + i
    /\ exec - fin = (IF wpc = "txn" THEN 1 ELSE 0)

\* the second request enqueued, made by the first caller, is executing after
\* the first has ended and while a third one waits
C1_Witness ==
    /\ wpc = "txn"
    /\ wop.seq = 2
    /\ wop.caller = 1
    /\ fin = 1
    /\ Len(uOps) = 1

\* C2: at most one write transaction is open on the environment, and the
\* transactions of New have all ended when the worker starts.
C2_OneWriteTxn ==
    /\ writeTxns <= 1
    /\ wpc # "none" => newPc \in {"return", "done"} /\ newI > Len(dbNames)
    /\ newPc = "intxn" => wpc = "none"

\* the worker's transaction is open while two more requests are queued
C2_Witness ==
    /\ writeTxns = 1
    /\ wpc = "txn"
    /\ Len(uOps) = 2
    /\ Cardinality(dbs) = 2

\* the request of caller c is on the queue or with the worker, its result
\* not yet received
Outstanding(c) == cpc[c] = "recv"

\* C3: every enqueued request receives exactly one result. Stated on the
\* states in which nothing more can happen: no request is left without its
\* result there, and no request has ever received two.
C3_ExactlyOneResult ==
    /\ \A c \in Callers : got[c] <= 1
    /\ ~(ENABLED Next) => \A c \in Callers : ~Outstanding(c)

\* C4: no transaction begins or is running on a closed environment.
C4_NoUseAfterClose ==
    env = "closed" => readTxns = {} /\ writeTxns = 0

\* C5: no caller sends on the closed queue: a caller that races with Close
\* has its request enqueued or returns the database-closed error.
C5_NoSendOnClosed ==
    \A c \in Callers : cpc[c] # "panicked"

\* C6: the teardown runs once: the queue is closed once, the environment is
\* closed once, and no Close call panics.
C6_CloseOnce ==
    /\ chCloses <= 1
    /\ envCloses <= 1
    /\ \A k \in Closers : kpc[k] # "panicked"

\* C7: when a Close call has returned, whichever it is, every request that
\* was enqueued has had its result received by its caller.
C7_CloseWaits ==
    \A k \in Closers :
        kpc[k] = "done" =>
            /\ \A c \in Callers : ~Outstanding(c)
            /\ uOps = <<>>
            /\ wop = NoReq

\* both Close calls have returned and three requests were enqueued and
\* answered
C7_Witness ==
    /\ \A k \in Closers : kpc[k] = "done"
    /\ \A c \in Callers : got[c] = 1 /\ cpc[c] = "done"

\* the call of c failed the validation of its arguments
Invalid(c) == cres[c] \in {ErrEmptyKey, ErrDbNameNotFound}

\* C8: a Write or Update (with arguments that pass the validation) called
\* after a Close has returned returns the database-closed error at once: it
\* is never found sending, waiting or panicking.
C8_ClosedError ==
    \A c \in Callers :
        clate[c] /\ ~Invalid(c) => cpc[c] = "done" /\ cres[c] = ErrDBClosed

\* C9: a Read, Write, Delete, Update or View (with arguments that pass the
\* validation) called after a Close has returned returns the database-closed
\* error at once and runs no transaction.
C9_FailFast ==
    /\ C8_ClosedError
    /\ \A r \in Readers :
          rlate[r] /\ rres[r] \notin {ErrEmptyKey, ErrDbNameNotFound} =>
              rpc[r] = "done" /\ rres[r] = ErrDBClosed

\* C10: when New has returned an error, the environment handle is not left
\* allocated or open, and no worker runs.
C10_NoLeak ==
    newPc = "failed" => env \in {"nil", "closed"} /\ wpc = "none"

\* C11: New called with a list that holds a name twice returns the
\* duplicate-name error with no DB and a stale count of 0, and has done
\* nothing before: no directory made, no environment handle, no transaction,
\* no database registered, no worker.
C11_DuplicateRejected ==
    (\E i, j \in 1..Len(dbNames) : i < j /\ dbNames[i] = dbNames[j]) =>
        /\ newPc \in {"dupcheck", "failed"}
        /\ newPc = "failed" =>
               newRet = [db |-> FALSE, stale |-> 0,
                         err |-> ErrDuplicateDbName]
        /\ ~dirMade
        /\ env = "nil"
        /\ writeTxns = 0
        /\ dbs = {}
        /\ stale = 0
        /\ wpc = "none"

\* New has returned the duplicate-name error for a list whose first and
\* third names are the same
C11_Witness ==
    /\ dbNames = <<"a", "b", "a">>
    /\ newPc = "failed"
    /\ newRet.err = ErrDuplicateDbName

\* C12 as stated: a Read, Write or Delete called with an empty or
\* unregistered name returns the name-not-found error, and called with an
\* empty key returns the empty-key error; the call runs no transaction,
\* enqueues no request and leaves the data as they were.
C12_ValidationErrors ==
    [][/\ \A c \in Callers : cpc[c] = "idle" /\ cpc'[c] # "idle" =>
          \A n \in Names, k \in Keys :
             /\ n = "" \/ n \notin dbs \/ k = ""
             /\ WriteCall(c, n, k, ValOf(c)) \/ DeleteCall(c, n, k)
             => /\ n = "" \/ n \notin dbs => cres'[c] = ErrDbNameNotFound
                /\ k = "" => cres'[c] = ErrEmptyKey
                /\ cpc'[c] = "done"
                /\ UNCHANGED <<uOps, enq, exec, writeTxns, readTxns, store>>
       /\ \A r \in Readers : rpc[r] = "idle" /\ rpc'[r] # "idle" =>
          \A n \in Names, k \in Keys :
             /\ n = "" \/ n \notin dbs \/ k = ""
             /\ ReadCall(r, n, k)
             => /\ n = "" \/ n \notin dbs => rres'[r] = ErrDbNameNotFound
                /\ k = "" => rres'[r] = ErrEmptyKey
                /\ rpc'[r] = "done"
                /\ UNCHANGED <<uOps, enq, exec, writeTxns, readTxns, store>>
      ]_vars

\* C12 amended: a Read, Write or Delete called with an empty name, or with
\* an unregistered name and a key that is not empty, returns the
\* name-not-found error, and called with a name that is not empty and an
\* empty key returns the empty-key error; the call runs no transaction,
\* enqueues no request and leaves the data as they were.
C12_ValidationPrecedence ==
    [][/\ \A c \in Callers : cpc[c] = "idle" /\ cpc'[c] # "idle" =>
          \A n \in Names, k \in Keys :
             /\ n = "" \/ n \notin dbs \/ k = ""
             /\ WriteCall(c, n, k, ValOf(c)) \/ DeleteCall(c, n, k)
             => /\ n = "" \/ (n \notin dbs /\ k # "")
                      => cres'[c] = ErrDbNameNotFound
                /\ n # "" /\ k = "" => cres'[c] = ErrEmptyKey
                /\ cpc'[c] = "done"
                /\ UNCHANGED <<uOps, enq, exec, writeTxns, readTxns, store>>
       /\ \A r \in Readers : rpc[r] = "idle" /\ rpc'[r] # "idle" =>
          \A n \in Names, k \in Keys :
             /\ n = "" \/ n \notin dbs \/ k = ""
             /\ ReadCall(r, n, k)
             => /\ n = "" \/ (n \notin dbs /\ k # "")
                      => rres'[r] = ErrDbNameNotFound
                /\ n # "" /\ k = "" => rres'[r] = ErrEmptyKey
                /\ rpc'[r] = "done"
                /\ UNCHANGED <<uOps, enq, exec, writeTxns, readTxns, store>>
      ]_vars

\* on a DB with database "a", a write call was refused for its empty key, a
\* write call and a Read for their names, and nothing was enqueued
C12_Witness ==
    /\ "a" \in dbs
    /\ cpc[1] = "done" /\ cres[1] = ErrEmptyKey
    /\ cpc[2] = "done" /\ cres[2] = ErrDbNameNotFound
    /\ rpc[1] = "done" /\ rres[1] = ErrDbNameNotFound
    /\ enq = 0
    /\ store["a"]["k1"] = NoVal

\* the requests enqueued and not yet executed, oldest first
Pending == (IF wpc = "txn" THEN <<wop>> ELSE <<>>) \o uOps

\* the data d after the requests of q, applied one after the other
RECURSIVE Replay(_, _)
Replay(q, d) ==
    IF q = <<>> THEN d ELSE Replay(Tail(q), Submitted(Head(q), d))

\* C13: concurrent Writes on an open DB all complete, a Read called when
\* they have completed returns the value written, and of several writes to
\* one key the one enqueued last wins. The stored data, with the requests
\* still pending applied in queue order, are at every moment what the
\* requests enqueued so far make of an empty store in enqueue order; while
\* no Close has been called, the write path stops only when no caller is
\* left sending or waiting; and a read transaction that begins when no
\* call is in progress sees exactly those data.
C13_LastSubmittedWins ==
    /\ [](Replay(Pending, store) = want)
    /\ []((\A k \in Closers : kpc[k] = "idle")
            /\ ~(ENABLED (Worker \/ \E c \in Callers : Send(c)))
          => \A c \in Callers : cpc[c] \in {"idle", "done"})
    /\ [][\A r \in Readers :
            /\ rpc[r] = "idle"
            /\ rpc'[r] = "intxn"
            /\ \A c \in Callers : cpc[c] \in {"idle", "done"}
            => rreq'[r].snap = want[rreq'[r].name][rreq'[r].key]]_vars

\* three Writes have completed on an open DB, two of them to key k1; k1
\* holds the value of the second caller, whose request was enqueued after
\* the first caller's, and a Read has returned it
C13_Witness ==
    /\ \A k \in Closers : kpc[k] = "idle"
    /\ \A c \in Callers : cpc[c] = "done" /\ got[c] = 1 /\ cres[c] = Nil
    /\ store["a"]["k1"] = "v2"
    /\ store["a"]["k2"] = "v1"
    /\ rpc[1] = "done"
    /\ rres[1] = "v2"

\* C14: a successful Write(d, k, v) followed by a Read(d, k), with no write
\* to k in between, returns v, and a successful Delete(d, k) followed by a
\* Read(d, k) returns the engine's not-found error. When the worker hands
\* out the nil of a put, the key holds the value put, and when it hands out
\* the nil of a del, the key is absent; the value of a key changes in the
\* transaction of a request on that key only; a read transaction on the
\* open environment takes the value the key has when it begins, and
\* returns it, or not-found for an absent key.
C14_ReadYourWrite ==
    /\ [](wpc = "reply" /\ wres = Nil =>
            /\ wop.kind = "put" => store[wop.name][wop.key] = wop.val
            /\ wop.kind = "del" => store[wop.name][wop.key] = NoVal)
    /\ [][/\ store' # store =>
              /\ wpc = "txn"
              /\ \A n \in StoreNames, k \in StoreKeys :
                    store'[n][k] # store[n][k] =>
                        n = wop.name /\ k = wop.key
          /\ \A r \in Readers :
                rpc[r] # "intxn" /\ rpc'[r] = "intxn" =>
                    rreq'[r].snap = store[rreq'[r].name][rreq'[r].key]
          /\ \A r \in Readers :
                rpc[r] = "intxn" /\ rpc'[r] # "intxn" /\ ~rbad[r] =>
                    /\ rpc'[r] = "done"
                    /\ rres'[r] = (IF rreq[r].snap = NoVal THEN NotFound
                                   ELSE rreq[r].snap)
         ]_vars

\* the first caller's Write of v1 to k1 is the only write call made, it
\* returned nil, and a Read of k1 has returned v1
C14_Witness ==
    /\ got[1] = 1
    /\ cres[1] = Nil
    /\ cpc[2] = "idle"
    /\ cpc[3] = "idle"
    /\ store["a"]["k1"] = "v1"
    /\ env = "open"
    /\ rpc[1] = "done"
    /\ rres[1] = "v1"

\* C15: the outcome a caller of Update receives is the result of its own
\* operation, run in one write transaction: nil when the operation
\* succeeded, its effects committed, or the operation's error as it is, the
\* transaction aborted and the data unchanged; never the outcome of another
\* caller's operation. The request the worker holds is the one its caller
\* made; the transaction's result is the operation's, with the data
\* changed on nil only; and a waiting caller's result is set by the worker
\* only, to the result of the request that is the caller's own.
C15_OwnResult ==
    /\ [](wop # NoReq =>
            /\ cpc[wop.caller] = "recv"
            /\ creq[wop.caller] = [wop EXCEPT !.seq = 0])
    /\ [][/\ wpc = "txn" /\ wpc' # "txn" =>
              /\ writeTxns = 1 /\ writeTxns' = 0
              /\ wop' = wop
              /\ wop.kind = "fail" => wres' = OpErr /\ store' = store
              /\ wop.kind = "put" =>
                    /\ wres' = Nil
                    /\ store' = [store EXCEPT ![wop.name][wop.key] = wop.val]
              /\ wop.kind = "del" /\ store[wop.name][wop.key] = NoVal =>
                    wres' = NotFound /\ store' = store
              /\ wop.kind = "del" /\ store[wop.name][wop.key] # NoVal =>
                    /\ wres' = Nil
                    /\ store' = [store EXCEPT ![wop.name][wop.key] = NoVal]
          /\ \A c \in Callers :
                cpc[c] = "recv" /\ (cres'[c] # cres[c] \/ cpc'[c] = "done") =>
                    /\ wpc = "reply"
                    /\ wop.caller = c
                    /\ cres'[c] = wres
                    /\ got'[c] = got[c] + 1
         ]_vars

\* two callers have received different outcomes: the first the error of
\* its failing operation, the second the nil of its put, whose value is
\* stored
C15_Witness ==
    /\ cpc[1] = "done" /\ got[1] = 1 /\ cres[1] = OpErr
    /\ cpc[2] = "done" /\ got[2] = 1 /\ cres[2] = Nil
    /\ cpc[3] = "idle"
    /\ store["a"]["k1"] = "v2"

\* C16: reads are never serialized. Whatever the worker and the queue are
\* doing, and whatever the other readers are doing, on an open DB a reader
\* that has not called yet can make its Read or View call, a View call that
\* passed its check can begin its transaction, and a read transaction can
\* end: no step of a read waits for the queue, the worker or another read.
C16_ReadsNotSerialized ==
    \A r \in Readers :
        /\ Ready /\ rpc[r] = "idle" => ENABLED Read(r)
        /\ Ready /\ rpc[r] = "idle" /\ "a" \in dbs => ENABLED View(r)
        /\ rpc[r] = "view" => ENABLED ViewBegin(r)
        /\ rpc[r] = "intxn" => ENABLED ViewEnd(r)

\* two read transactions are open at the same time, while the worker's
\* write transaction is running and the queue is full
C16_Witness ==
    /\ rpc[1] = "intxn"
    /\ rpc[2] = "intxn"
    /\ readTxns = {1, 2}
    /\ wpc = "txn"
    /\ writeTxns = 1
    /\ Len(uOps) = QueueCap

\* C17: Close tears down in a fixed order. The queue is closed only when
\* the closed flag is set, the worker has terminated only when the queue is
\* closed and empty and no request is left with the worker, and the
\* environment of a DB that New returned is closed only when the worker
\* has terminated: there, environment closed implies worker terminated,
\* queue closed and empty, closed flag set.
C17_CloseOrder ==
    /\ chClosed => closed = 1
    /\ wpc = "exited" => chClosed /\ uOps = <<>> /\ wop = NoReq
    /\ kpc \in [Closers -> {"idle", "store"}] => ~chClosed
    /\ newPc = "done" /\ env = "closed" =>
          /\ wpc = "exited"
          /\ chClosed
          /\ uOps = <<>>
          /\ closed = 1
          /\ writeTxns = 0

\* Close has closed the environment after the worker executed a request
\* and terminated
C17_Witness ==
    /\ newPc = "done"
    /\ env = "closed"
    /\ wpc = "exited"
    /\ fin = 1
    /\ \E k \in Closers : kpc[k] = "done"

\* C18: the queue never holds more requests than its capacity; a caller
\* that finds it full stays in its send, and with a worker that keeps
\* running and no Close the request of every sending caller is enqueued
\* and answered: none is dropped or refused because the queue is full.
C18_QueueBounded ==
    /\ [](Len(uOps) <= QueueCap)
    /\ [](\A c \in Callers :
            cpc[c] = "send" /\ Len(uOps) = QueueCap => ~(ENABLED Send(c)))
    /\ [][\A c \in Callers :
            cpc[c] = "send" => cpc'[c] = "send" \/
                (cpc'[c] = "recv" /\ enq' = enq + 1
                 /\ uOps' = Append(uOps, [creq[c] EXCEPT !.seq = enq'])
                 /\ creq'[c] = creq[c])]_vars
    /\ \A c \in Callers : (cpc[c] = "send") ~> (cpc[c] = "recv")
    /\ \A c \in Callers : (cpc[c] = "recv") ~> (cpc[c] = "done")

\* the queue is full and a caller waits in its send, which is not enabled
C18_Witness ==
    /\ Len(uOps) = QueueCap
    /\ \E c \in Callers : cpc[c] = "send" /\ ~(ENABLED Send(c))

\* C19: in Write and Delete the validation runs before the closed check,
\* in the order empty name, empty key, unregistered name. On a closed DB a
\* call with an empty key returns the empty-key error and a call with an
\* empty or unknown name the name-not-found error, not the database-closed
\* error, which only a call with valid arguments gets; and on any DB a
\* call with an unregistered name that is not empty and an empty key
\* returns the empty-key error.
C19_ValidationFirst ==
    [][\A c \in Callers : cpc[c] = "idle" /\ cpc'[c] # "idle" =>
          \A n \in Names, k \in Keys :
             WriteCall(c, n, k, ValOf(c)) \/ DeleteCall(c, n, k) =>
                /\ closed # 0 =>
                      cres'[c] = (IF n = "" THEN ErrDbNameNotFound
                                  ELSE IF k = "" THEN ErrEmptyKey
                                  ELSE IF n \notin dbs THEN ErrDbNameNotFound
                                  ELSE ErrDBClosed)
                /\ n # "" /\ n \notin dbs /\ k = "" =>
                      cres'[c] = ErrEmptyKey
      ]_vars

\* of the write calls made after Close returned, one got the empty-key
\* error, one the name-not-found error and one the database-closed error
C19_Witness ==
    /\ \A c \in Callers : clate[c]
    /\ cres[1] = ErrEmptyKey
    /\ cres[2] = ErrDbNameNotFound
    /\ cres[3] = ErrDBClosed

====
